---- MODULE Spec2Model ----
\* Happy Thoughts API: the tag classifier (identifyTags) and the request
\* handlers for create / like / update / delete over the thoughts collection.
\*
\* A string is modelled as the sequence of its UTF-16 code units (integers),
\* which is what String.prototype.includes, toLowerCase, trim and a RegExp
\* without the u flag operate on.  A text given by the caller is a sequence
\* of Unicode code points and is encoded by ToUtf16.
EXTENDS Integers, Sequences, FiniteSets, TLC

\* ---------------------------------------------------------------------
\* Bounds of the model
\* ---------------------------------------------------------------------
MaxTokens == 2      \* a classifier input is a concatenation of <= MaxTokens tokens
MaxThoughts == 1    \* number of thoughts ever created in one behaviour
MaxHearts == 2      \* anonymous likes stop once hearts reaches this value

\* ---------------------------------------------------------------------
\* Strings
\* ---------------------------------------------------------------------
\* Encoding of one code point as UTF-16 code units (surrogate pair above the BMP).
Utf16Units(cp) ==
  IF cp > 65535
    THEN << 55296 + ((cp - 65536) \div 1024), 56320 + ((cp - 65536) % 1024) >>
    ELSE << cp >>

RECURSIVE ToUtf16(_)
ToUtf16(cps) ==
  IF cps = << >> THEN << >> ELSE Utf16Units(Head(cps)) \o ToUtf16(Tail(cps))

\* String.prototype.toLowerCase on the code units of the model's alphabet:
\* A-Z map to a-z, everything else (including surrogates) is unchanged.
LowerUnit(u) == IF u >= 65 /\ u <= 90 THEN u + 32 ELSE u
\* A case mapping that does nothing.
toLowerCase_Identity(s) == s

toLowerCase(s) == [i \in 1..Len(s) |-> LowerUnit(s[i])]

\* A word-bounded variant of includes: the occurrence must not be preceded or
\* followed by a letter.
includes_WordBounded(s, k) ==
  LET IsLetter(u) == u >= 97 /\ u <= 122
  IN \E i \in 0..(Len(s) - Len(k)) :
     /\ SubSeq(s, i + 1, i + Len(k)) = k
     /\ (i = 0 \/ ~IsLetter(s[i]))
     /\ (i + Len(k) = Len(s) \/ ~IsLetter(s[i + Len(k) + 1]))

\* String.prototype.includes: plain substring containment.
includes(s, k) ==
  \E i \in 0..(Len(s) - Len(k)) : SubSeq(s, i + 1, i + Len(k)) = k

\* String.prototype.trim: strips leading and trailing white space.
IsSpace(u) == u \in {9, 10, 13, 32}
RECURSIVE TrimLeft(_)
TrimLeft(s) ==
  IF s # << >> /\ IsSpace(Head(s)) THEN TrimLeft(Tail(s)) ELSE s
RECURSIVE TrimRight(_)
TrimRight(s) ==
  IF s # << >> /\ IsSpace(s[Len(s)]) THEN TrimRight(SubSeq(s, 1, Len(s) - 1)) ELSE s
trim(s) == TrimRight(TrimLeft(s))

\* ---------------------------------------------------------------------
\* Tag classifier: ThoughtsModel.identifyTags
\* ---------------------------------------------------------------------
\* The keyword table of identifyTags. A keyword is the sequence of its
\* UTF-16 code units (all keywords are lower-case ASCII).
tagKeywords ==
  [ food |-> <<
      <<102,111,111,100>>,  \* food
      <<101,97,116>>,  \* eat
      <<99,111,111,107>>,  \* cook
      <<114,101,99,105,112,101>>,  \* recipe
      <<99,111,102,102,101,101>>,  \* coffee
      <<116,101,97>>,  \* tea
      <<112,105,122,122,97>>,  \* pizza
      <<99,97,107,101>>,  \* cake
      <<99,104,111,99,111,108,97,116,101>>,  \* chocolate
      <<99,111,111,107,105,101,115>>,  \* cookies
      <<114,101,115,116,97,117,114,97,110,116>>,  \* restaurant
      <<100,105,110,110,101,114>>,  \* dinner
      <<108,117,110,99,104>>,  \* lunch
      <<98,114,101,97,107,102,97,115,116>>,  \* breakfast
      <<104,117,110,103,114,121>>,  \* hungry
      <<100,101,108,105,99,105,111,117,115>>,  \* delicious
      <<116,97,115,116,101>>,  \* taste
      <<102,108,97,118,111,114>>,  \* flavor
      <<115,111,117,112>>,  \* soup
      <<112,97,115,116,97>>  \* pasta
    >>
  , programming |-> <<
      <<99,111,100,101>>,  \* code
      <<100,101,98,117,103>>,  \* debug
      <<102,117,110,99,116,105,111,110>>,  \* function
      <<97,112,105>>,  \* api
      <<106,97,118,97,115,99,114,105,112,116>>,  \* javascript
      <<112,121,116,104,111,110>>,  \* python
      <<104,116,109,108>>,  \* html
      <<99,115,115>>,  \* css
      <<114,101,97,99,116>>,  \* react
      <<110,111,100,101>>,  \* node
      <<115,101,114,118,101,114>>,  \* server
      <<100,97,116,97,98,97,115,101>>,  \* database
      <<99,111,109,112,105,108,101>>,  \* compile
      <<115,121,110,116,97,120>>,  \* syntax
      <<97,108,103,111,114,105,116,104,109>>,  \* algorithm
      <<112,114,111,103,114,97,109,109,105,110,103>>,  \* programming
      <<100,101,118,101,108,111,112,101,114>>,  \* developer
      <<103,105,116>>,  \* git
      <<103,105,116,104,117,98>>,  \* github
      <<98,117,103>>  \* bug
    >>
  , work |-> <<
      <<119,111,114,107>>,  \* work
      <<106,111,98>>,  \* job
      <<111,102,102,105,99,101>>,  \* office
      <<109,101,101,116,105,110,103>>,  \* meeting
      <<100,101,97,100,108,105,110,101>>,  \* deadline
      <<112,114,111,106,101,99,116>>,  \* project
      <<98,111,115,115>>,  \* boss
      <<99,111,108,108,101,97,103,117,101>>,  \* colleague
      <<115,97,108,97,114,121>>,  \* salary
      <<99,97,114,101,101,114>>,  \* career
      <<105,110,116,101,114,118,105,101,119>>,  \* interview
      <<112,114,101,115,101,110,116,97,116,105,111,110>>,  \* presentation
      <<116,101,97,109>>,  \* team
      <<99,108,105,101,110,116>>,  \* client
      <<98,117,115,105,110,101,115,115>>  \* business
    >>
  , home |-> <<
      <<104,111,109,101>>,  \* home
      <<104,111,117,115,101>>,  \* house
      <<102,97,109,105,108,121>>,  \* family
      <<114,111,111,109>>,  \* room
      <<99,108,101,97,110>>,  \* clean
      <<111,114,103,97,110,105,122,101>>,  \* organize
      <<102,117,114,110,105,116,117,114,101>>,  \* furniture
      <<103,97,114,100,101,110>>,  \* garden
      <<112,108,97,110,116,115>>,  \* plants
      <<112,101,116>>,  \* pet
      <<99,97,116>>,  \* cat
      <<100,111,103>>,  \* dog
      <<112,97,114,101,110,116,115>>,  \* parents
      <<115,105,98,108,105,110,103,115>>  \* siblings
    >>
  , health |-> <<
      <<101,120,101,114,99,105,115,101>>,  \* exercise
      <<119,111,114,107,111,117,116>>,  \* workout
      <<103,121,109>>,  \* gym
      <<114,117,110>>,  \* run
      <<119,97,108,107>>,  \* walk
      <<121,111,103,97>>,  \* yoga
      <<115,108,101,101,112>>,  \* sleep
      <<116,105,114,101,100>>,  \* tired
      <<101,110,101,114,103,121>>,  \* energy
      <<104,101,97,108,116,104,121>>,  \* healthy
      <<109,101,100,105,99,105,110,101>>,  \* medicine
      <<100,111,99,116,111,114>>,  \* doctor
      <<104,111,115,112,105,116,97,108>>  \* hospital
    >>
  , weather |-> <<
      <<115,117,110,110,121>>,  \* sunny
      <<114,97,105,110>>,  \* rain
      <<115,110,111,119>>,  \* snow
      <<99,111,108,100>>,  \* cold
      <<104,111,116>>,  \* hot
      <<119,101,97,116,104,101,114>>,  \* weather
      <<115,116,111,114,109>>,  \* storm
      <<99,108,111,117,100>>,  \* cloud
      <<119,105,110,100>>,  \* wind
      <<115,117,110,115,104,105,110,101>>,  \* sunshine
      <<116,101,109,112,101,114,97,116,117,114,101>>  \* temperature
    >>
  , emotions |-> <<
      <<104,97,112,112,121>>,  \* happy
      <<115,97,100>>,  \* sad
      <<101,120,99,105,116,101,100>>,  \* excited
      <<110,101,114,118,111,117,115>>,  \* nervous
      <<97,110,103,114,121>>,  \* angry
      <<108,111,118,101>>,  \* love
      <<104,97,116,101>>,  \* hate
      <<97,110,120,105,111,117,115>>,  \* anxious
      <<99,97,108,109>>,  \* calm
      <<115,116,114,101,115,115,101,100>>,  \* stressed
      <<103,114,97,116,101,102,117,108>>,  \* grateful
      <<112,114,111,117,100>>,  \* proud
      <<100,105,115,97,112,112,111,105,110,116,101,100>>  \* disappointed
    >>
  , travel |-> <<
      <<116,114,97,118,101,108>>,  \* travel
      <<118,97,99,97,116,105,111,110>>,  \* vacation
      <<116,114,105,112>>,  \* trip
      <<102,108,105,103,104,116>>,  \* flight
      <<104,111,116,101,108>>,  \* hotel
      <<98,101,97,99,104>>,  \* beach
      <<109,111,117,110,116,97,105,110>>,  \* mountain
      <<99,105,116,121>>,  \* city
      <<99,111,117,110,116,114,121>>,  \* country
      <<97,105,114,112,111,114,116>>,  \* airport
      <<112,97,115,115,112,111,114,116>>  \* passport
    >>
  , entertainment |-> <<
      <<109,111,118,105,101>>,  \* movie
      <<109,117,115,105,99>>,  \* music
      <<98,111,111,107>>,  \* book
      <<103,97,109,101>>,  \* game
      <<116,118>>,  \* tv
      <<115,104,111,119>>,  \* show
      <<99,111,110,99,101,114,116>>,  \* concert
      <<116,104,101,97,116,101,114>>,  \* theater
      <<100,97,110,99,101>>,  \* dance
      <<112,97,114,116,121>>,  \* party
      <<102,101,115,116,105,118,97,108>>  \* festival
    >>
  , learning |-> <<
      <<108,101,97,114,110>>,  \* learn
      <<115,116,117,100,121>>,  \* study
      <<115,99,104,111,111,108>>,  \* school
      <<117,110,105,118,101,114,115,105,116,121>>,  \* university
      <<99,111,117,114,115,101>>,  \* course
      <<108,101,115,115,111,110>>,  \* lesson
      <<116,101,97,99,104,101,114>>,  \* teacher
      <<115,116,117,100,101,110,116>>,  \* student
      <<101,100,117,99,97,116,105,111,110>>,  \* education
      <<107,110,111,119,108,101,100,103,101>>  \* knowledge
    >>
  ]

\* Object.entries(tagKeywords): the categories in declaration order.
Categories ==
  << "food", "programming", "work", "home", "health", "weather",
     "emotions", "travel", "entertainment", "learning" >>

\* The emoji tables, as the code points written inside each character class.
emojiCodePoints ==
  [ food     |-> << 127829, 127856, 127850, 9749, 127837, 129368, 127859,
                    129367, 127828, 127790 >>,
    emotions |-> << 128516, 128522, 128546, 128525, 129392, 128548, 128561 >>,
    work     |-> << 128188, 128202, 128200, 128187, 128221 >>,
    home     |-> << 127968, 127969, 128715, 65039, 127793 >> ]

\* Object.entries(emojiPatterns): the categories with an emoji table.
EmojiCategories == << "food", "emotions", "work", "home" >>

SeqToSet(s) == { s[i] : i \in 1..Len(s) }

\* The character class /[...]/ is written without the u flag, so it is a
\* class of UTF-16 code units: every code point above the BMP contributes its
\* high and its low surrogate as two separate members.
emojiPatterns ==
  [ c \in SeqToSet(EmojiCategories) |->
      UNION { SeqToSet(Utf16Units(emojiCodePoints[c][i])) :
                i \in 1..Len(emojiCodePoints[c]) } ]

\* pattern.test(message): some code unit of the message is in the class.
PatternTest(c, message) ==
  \E i \in 1..Len(message) : message[i] \in emojiPatterns[c]

\* keywords.some(keyword => text.includes(keyword) ||
\*   text.includes(keyword + 's') || text.includes(keyword + 'ing'))
LetterS == << 115 >>
LettersIng == << 105, 110, 103 >>
hasKeyword(c, text) ==
  \E j \in 1..Len(tagKeywords[c]) :
     \/ includes(text, tagKeywords[c][j])
     \/ includes(text, tagKeywords[c][j] \o LetterS)
     \/ includes(text, tagKeywords[c][j] \o LettersIng)

\* [...new Set(tags)]: first occurrences, in order.
RECURSIVE UniqueSeq(_)
UniqueSeq(s) ==
  IF s = << >> THEN << >>
  ELSE LET r == UniqueSeq(SubSeq(s, 1, Len(s) - 1))
       IN  IF s[Len(s)] \in SeqToSet(r) THEN r ELSE Append(r, s[Len(s)])

\* identifyTags(message), message being a string (sequence of code units).
identifyTags(message) ==
  LET text == toLowerCase(message)
      IsKw(c) == hasKeyword(c, text)
      IsEmoji(c) == PatternTest(c, message)
      tags == SelectSeq(Categories, IsKw) \o SelectSeq(EmojiCategories, IsEmoji)
      uniqueTags == UniqueSeq(tags)
  IN  IF Len(uniqueTags) = 0 THEN << "general" >> ELSE uniqueTags

\* ---------------------------------------------------------------------
\* Classifier inputs
\* ---------------------------------------------------------------------
\* Texts are given as sequences of code points.
Tokens ==
  { <<99,97,116>>,                       \* cat
    <<97,115,116,114,111,112,104,101>>,  \* astrophe
    <<99,111,100,101>>,                  \* code
    <<99,111,100,105,110,103>>,          \* coding
    <<112,105,122,122,97>>,              \* pizza
    <<80,73,90,90,65>>,                  \* PIZZA
    <<32>>,                              \* space
    <<115>>,                             \* s
    <<105,110,103>>,                     \* ing
    <<127829>>,                          \* U+1F355 slice of pizza (food table)
    <<128516>>,                          \* U+1F604 grinning face (emotions table)
    <<128640>> }                         \* U+1F680 rocket (in no table)

\* "I love pizza and coding"
PizzaAndCoding ==
  <<73,32,108,111,118,101,32,112,105,122,122,97,32,97,110,100,32,
    99,111,100,105,110,103>>

RECURSIVE TokenTexts(_)
TokenTexts(n) ==
  IF n = 0 THEN { << >> }
  ELSE LET shorter == TokenTexts(n - 1)
       IN  shorter \cup { t \o k : t \in shorter, k \in Tokens }

Texts == TokenTexts(MaxTokens) \cup { PizzaAndCoding }

\* ---------------------------------------------------------------------
\* Thoughts collection and requests
\* ---------------------------------------------------------------------
Users == { "u1", "u2" }
NoUser == "none"          \* a thought document without the user field
Undefined == "undefined"  \* a request field that is absent

\* Thought schema: minlength / maxlength of message (checked after trimming).
MinLength == 5
MaxLength == 140

\* Status codes of the ApiError subclasses.
NotFoundStatus == 404
ValidationStatus == 400
AuthenticationStatus == 401
AuthorizationStatus == 403
UnexpectedStatus == 500

\* Request bodies: the message strings a client sends (ASCII, so code points
\* and code units coincide).
MsgHello == <<32,104,101,108,108,111,32>>      \* " hello "
MsgPizza == <<112,105,122,122,97>>             \* "pizza"
MsgCat == <<32,99,97,116,32>>                  \* " cat "
MsgTooLong == [i \in 1..(MaxLength + 1) |-> 120]   \* "xx...x", one above the maximum
MsgMax == [i \in 1..MaxLength |-> 120]             \* "xx...x", exactly the maximum
MessageInputs == { MsgHello, MsgPizza, MsgCat, MsgTooLong, MsgMax }

\* A falsy message: the empty string (an absent message behaves the same).
EmptyString == << >>

\* The tags field of an update body: absent, or an array of labels.
TagInputs ==
  { [ given |-> FALSE, value |-> << >> ],
    [ given |-> TRUE, value |-> << >> ],
    [ given |-> TRUE, value |-> << "travel" >> ] }

\* Authorization headers: absent, not a Bearer header, a Bearer token that
\* fails verification, or a valid token signed for a user.
Credentials ==
  { [kind |-> "none"], [kind |-> "notbearer"], [kind |-> "invalid"] }
    \cup { [kind |-> "valid", userId |-> u] : u \in Users }

\* identifyTags on every message of the request alphabet.
TagsOf == [m \in MessageInputs \cup { EmptyString } |-> identifyTags(m)]

VARIABLES
  ctext,     \* classifier run: the input text (code points)
  ctags,     \* classifier run: the labels returned
  cpc,       \* classifier run: "input" before the call, "done" after, "idle" when unused
  thoughts,  \* the Thought collection, in insertion order
  nextId,    \* number of documents created so far + 1 (source of _id and createdAt)
  last,      \* the last request and its response
  messages,  \* ThoughtsModel.messages: the records of the file-backed store
  view,      \* the last call on the file-backed store or list request, and its result
  nodeEnv,   \* process.env.NODE_ENV of the server process
  pending,   \* like requests in flight: the document each one has read
  file       \* the records in the data file of the file-backed store

cvars == << ctext, ctags, cpc >>
svars == << thoughts, nextId, last, pending >>
fvars == << messages, view, file >>
vars ==
  << ctext, ctags, cpc, thoughts, nextId, last, messages, view, nodeEnv, pending, file >>

NoThought == [ id |-> 0 ]
\* A response body as far as errors go: whether it carries the message of
\* the error that was thrown, and its message field.
NoBody == [ showsErrorMessage |-> FALSE, message |-> "" ]
NoRequest ==
  [ op |-> "none", route |-> "", id |-> 0, user |-> NoUser, status |-> 0,
    err |-> [ api |-> FALSE, name |-> "", statusCode |-> 0 ], body |-> NoBody ]

\* Requests that can be in flight at the same time, and a request that is not.
Requests == { "r1", "r2" }
Idle == [ pc |-> "idle" ]
NoPending == [ r \in Requests |-> Idle ]

\* Values of NODE_ENV: anything but 'production' behaves as development.
Environments == { "production", "development" }
NoView == [ op |-> "none" ]

Ids == 1..MaxThoughts

\* Thought.findById
Lookup(coll, id) ==
  IF \E i \in 1..Len(coll) : coll[i].id = id
    THEN coll[CHOOSE i \in 1..Len(coll) : coll[i].id = id]
    ELSE NoThought
findById(id) == Lookup(thoughts, id)

\* A write that stores the document in every position of the collection.
Replace_Everywhere(id, t) == [ i \in 1..Len(thoughts) |-> t ]

\* The collection after the write of one document (save, findByIdAndUpdate).
Replace(id, t) ==
  [ i \in 1..Len(thoughts) |-> IF thoughts[i].id = id THEN t ELSE thoughts[i] ]
Remove(id) ==
  LET Keep(t) == t.id # id IN SelectSeq(thoughts, Keep)

\* ApiError(message, statusCode, publicMessage); its subclasses fix the code.
ApiError(name, statusCode) == [ api |-> TRUE, name |-> name, statusCode |-> statusCode ]
NotFoundError == ApiError("NotFoundError", NotFoundStatus)
ValidationError == ApiError("ValidationError", ValidationStatus)
AuthorizationError == ApiError("AuthorizationError", AuthorizationStatus)
\* Errors that are not ApiErrors: a TypeError, a Mongoose validation failure.
OtherError(name) == [ api |-> FALSE, name |-> name, statusCode |-> 0 ]
NoError == [ api |-> FALSE, name |-> "", statusCode |-> 0 ]

\* The middleware calls new ApiError(401, 'Authentication required'): the
\* number lands in message and the text in statusCode, which is no status.
NotAStatus == 0
MiddlewareAuthError == ApiError("ApiError", NotAStatus)

\* Error handling middleware of server.js; a status that is not a valid HTTP
\* status makes res.status(...).json(...) throw, and the request ends as 500.
ErrorStatus(err) ==
  IF err.api
    THEN IF err.statusCode \in 100..999 THEN err.statusCode ELSE UnexpectedStatus
    ELSE UnexpectedStatus

\* req.user when it is null or was never set: an object without fields.
\* req.isAuthenticated is FALSE when it is false or was never set (falsy).
NullUser == [ null |-> TRUE ]

\* authenticateUser: a request context, or the error passed to next().
authenticateUser(cred) ==
  IF cred.kind = "valid"
    THEN [ ok |-> TRUE, isAuthenticated |-> FALSE,
           user |-> [ userId |-> cred.userId ], err |-> NoError ]
    ELSE [ ok |-> FALSE, isAuthenticated |-> FALSE,
           user |-> NullUser, err |-> MiddlewareAuthError ]

\* optionalAuth: never fails; an authenticated request carries user.id.
optionalAuth(cred) ==
  IF cred.kind = "valid"
    THEN [ ok |-> TRUE, isAuthenticated |-> TRUE,
           user |-> [ id |-> cred.userId ], err |-> NoError ]
    ELSE [ ok |-> TRUE, isAuthenticated |-> FALSE,
           user |-> NullUser, err |-> NoError ]

\* A route without authentication middleware: req.user is never set.
noAuth(cred) ==
  [ ok |-> TRUE, isAuthenticated |-> FALSE, user |-> NullUser, err |-> NoError ]

\* req.user?.field : undefined when req.user or the field is absent.
Field(user, f) == IF f \in DOMAIN user THEN user[f] ELSE Undefined

\* The body the error handling middleware sends. An ApiError is answered
\* with its message and publicMessage; any other error with the generic
\* message, and with err.message unless NODE_ENV is 'production'. When the
\* middleware itself throws (invalid status), Express's final handler answers
\* with its own page, which does not carry the original message.
ErrorBody(err) ==
  IF err.api /\ err.statusCode \in 100..999
    THEN [ showsErrorMessage |-> TRUE, message |-> "publicMessage" ]
  ELSE IF err.api
    THEN [ showsErrorMessage |-> FALSE, message |-> "Internal Server Error" ]
  ELSE [ showsErrorMessage |-> nodeEnv # "production",
         message |-> "An unexpected error occurred" ]

Response(op, route, id, user, status) ==
  [ op |-> op, route |-> route, id |-> id, user |-> user, status |-> status,
    err |-> NoError, body |-> NoBody ]

Fail(op, route, id, user, err) ==
  /\ last' = [ Response(op, route, id, user, ErrorStatus(err))
                EXCEPT !.err = err, !.body = ErrorBody(err) ]
  /\ UNCHANGED << thoughts, nextId >>

Init ==
  /\ ctext = << >>
  /\ ctags = << >>
  /\ cpc = "idle"
  /\ thoughts = << >>
  /\ nextId = 1
  /\ last = NoRequest
  /\ messages = << >>
  /\ view = NoView
  /\ nodeEnv \in Environments
  /\ pending = NoPending
  /\ file = << >>

\* The token's user, as far as the model's history is concerned.
Caller(cred) == IF cred.kind = "valid" THEN cred.userId ELSE NoUser

\* Schema validation of message on Thought.create: required, minlength and
\* maxlength, all applied to the trimmed value.
SchemaValidMessage(m) == Len(m) >= MinLength /\ Len(m) <= MaxLength

Respond(op, route, id, user, status) ==
  last' = Response(op, route, id, user, status)

\* POST /thoughts (optionalAuth) and POST /users/thoughts (authenticateUser):
\* controller createThought.
CreateThought(route, cred, message) ==
  /\ nextId <= MaxThoughts
  /\ LET req == IF route = "/users/thoughts" THEN authenticateUser(cred)
                ELSE optionalAuth(cred)
         userId == Field(req.user, "userId")
         generatedTags == TagsOf[message]
         doc == [ id |-> nextId,
                  message |-> trim(message),
                  tags |-> generatedTags,
                  hearts |-> 0,
                  likes |-> << >>,
                  user |-> IF userId # Undefined THEN userId ELSE NoUser,
                  createdAt |-> nextId ]
     IN  IF ~req.ok
           THEN Fail("create", route, 0, Caller(cred), req.err)
         ELSE IF ~SchemaValidMessage(doc.message)
           THEN Fail("create", route, 0, Caller(cred),
                     OtherError("MongooseValidationError"))
         ELSE /\ thoughts' = Append(thoughts, doc)
              /\ nextId' = nextId + 1
              /\ Respond("create", route, doc.id, Caller(cred), 201)

\* A like that never unlikes: the user is pushed even when already present.
ToggleLike_AlwaysPush(thought, userId) ==
  LET likes == Append(thought.likes, userId)
  IN  [thought EXCEPT !.likes = likes, !.hearts = Len(likes)]

\* likeThought, authenticated branch: toggle the user in likes, then set
\* hearts to the length of likes.
ToggleLike(thought, userId) ==
  LET alreadyLiked == \E i \in 1..Len(thought.likes) : thought.likes[i] = userId
      NotMe(u) == u # userId
      likes == IF alreadyLiked THEN SelectSeq(thought.likes, NotMe)
               ELSE Append(thought.likes, userId)
  IN  [thought EXCEPT !.likes = likes, !.hearts = Len(likes)]

\* An anonymous like that derives hearts from likes, as the other branch does.
AnonymousLike_FromLikes(thought) == [thought EXCEPT !.hearts = Len(thought.likes) + 1]

\* likeThought, anonymous branch: thought.hearts += 1.
AnonymousLike(thought) == [thought EXCEPT !.hearts = @ + 1]

\* POST /thoughts/:id/like (optionalAuth): controller likeThought.
LikeThought(cred, id) ==
  LET req == optionalAuth(cred)
      userId == IF req.isAuthenticated THEN Field(req.user, "id") ELSE Undefined
      thought == findById(id)
      route == "/thoughts/:id/like"
  IN  IF thought = NoThought
        THEN Fail("like", route, id, Caller(cred), NotFoundError)
      ELSE IF userId # Undefined
        THEN /\ thoughts' = Replace(id, ToggleLike(thought, userId))
             /\ UNCHANGED nextId
             /\ Respond("like", route, id, Caller(cred), 200)
        ELSE /\ thought.hearts < MaxHearts
             /\ thoughts' = Replace(id, AnonymousLike(thought))
             /\ UNCHANGED nextId
             /\ Respond("like", route, id, Caller(cred), 200)

\* Minimum trimmed length the update controller checks itself.
UpdateMinLength == 5

\* thoughtsService.updateThought(id, {message, tags, preserveTags}, userId)
\* Thought.findByIdAndUpdate runs the schema setters (trim) but no validators.
ServiceUpdateOutcome(thought, message, tags, preserveTags, userId) ==
  IF thought = NoThought
    THEN [ err |-> NotFoundError, doc |-> NoThought ]
  ELSE IF thought.user # NoUser /\ userId # Undefined /\ thought.user # userId
    THEN [ err |-> AuthorizationError, doc |-> thought ]
  ELSE LET updatedTags == IF preserveTags THEN thought.tags
                          ELSE IF tags.given THEN tags.value ELSE << >>
       IN  [ err |-> NoError,
             doc |-> [thought EXCEPT !.message = trim(message),
                                     !.tags = updatedTags] ]

\* PUT /thoughts/:id (authenticateUser): controller updateThought.
UpdateThought(cred, id, message, tags, preserveTags) ==
  LET req == authenticateUser(cred)
      userId == Field(req.user, "userId")
      thought == findById(id)
      route == "/thoughts/:id"
      out == ServiceUpdateOutcome(thought, message, tags, preserveTags, userId)
  IN  IF ~req.ok
        THEN Fail("update", route, id, Caller(cred), req.err)
      ELSE IF message = EmptyString \/ Len(trim(message)) < UpdateMinLength
        THEN Fail("update", route, id, Caller(cred), ValidationError)
      ELSE IF out.err # NoError
        THEN Fail("update", route, id, Caller(cred), out.err)
      ELSE /\ thoughts' = Replace(id, out.doc)
           /\ UNCHANGED nextId
           /\ Respond("update", route, id, Caller(cred), 200)

\* A delete with the ownership test of updateThought, which lets a thought
\* without an owner through.
ServiceDeleteOutcome_OwnedOnlyChecked(thought, userId) ==
  IF thought = NoThought THEN OtherError("TypeError")
  ELSE IF thought.user # NoUser /\ thought.user # userId THEN AuthorizationError
  ELSE NoError

\* thoughtsService.deleteThought(id, userId): no error, or the error thrown.
\* The debug log reads thought._id before the null check.
ServiceDeleteOutcome(thought, userId) ==
  IF thought = NoThought THEN OtherError("TypeError")
  ELSE IF thought.user = NoUser \/ thought.user # userId THEN AuthorizationError
  ELSE NoError

\* DELETE /thoughts/:id (authenticateUser) and the legacy DELETE /tags/:id
\* (no middleware): controller deleteThought.
DeleteThought(route, cred, id) ==
  LET req == IF route = "/thoughts/:id" THEN authenticateUser(cred) ELSE noAuth(cred)
      userId == Field(req.user, "userId")
      thought == findById(id)
      err == ServiceDeleteOutcome(thought, userId)
  IN  IF ~req.ok
        THEN Fail("delete", route, id, Caller(cred), req.err)
      ELSE IF userId = Undefined
        THEN /\ UNCHANGED << thoughts, nextId >>
             /\ Respond("delete", route, id, Caller(cred), AuthenticationStatus)
      ELSE IF err # NoError
        THEN Fail("delete", route, id, Caller(cred), err)
      ELSE /\ thoughts' = Remove(id)
           /\ UNCHANGED nextId
           /\ Respond("delete", route, id, Caller(cred), 200)

\* The request bodies enumerated for a credential: a request that the
\* authentication middleware rejects never has its body read, so one body
\* stands for all of them.
CreateBodies(route, cred) ==
  IF route = "/users/thoughts" /\ ~authenticateUser(cred).ok
    THEN { MsgHello } ELSE MessageInputs \cup { EmptyString }
UpdateBodies(cred) ==
  IF ~authenticateUser(cred).ok
    THEN { [ message |-> MsgHello, tags |-> [ given |-> FALSE, value |-> << >> ],
             preserveTags |-> FALSE ] }
    ELSE [ message : MessageInputs \cup { EmptyString }, tags : TagInputs,
           preserveTags : BOOLEAN ]

Create ==
  \E route \in { "/thoughts", "/users/thoughts" }, cred \in Credentials :
    \E message \in CreateBodies(route, cred) :
       CreateThought(route, cred, message) /\ UNCHANGED << cvars, fvars, nodeEnv, pending >>

Like == \E cred \in Credentials, id \in Ids : LikeThought(cred, id) /\ UNCHANGED << cvars, fvars, nodeEnv, pending >>

Update ==
  \E cred \in Credentials, id \in Ids :
    \E body \in UpdateBodies(cred) :
       /\ UpdateThought(cred, id, body.message, body.tags, body.preserveTags)
       /\ UNCHANGED << cvars, fvars, nodeEnv, pending >>

Delete ==
  \E route \in { "/thoughts/:id", "/tags/:id" }, cred \in Credentials, id \in Ids :
       DeleteThought(route, cred, id) /\ UNCHANGED << cvars, fvars, nodeEnv, pending >>

Next == Create \/ Like \/ Update \/ Delete

Spec == Init /\ [][Next]_vars

\* A collection of two thoughts: the first created by u1 through
\* POST /users/thoughts, the second created anonymously.
FrameThoughts ==
  << [ id |-> 1, message |-> MsgPizza, tags |-> TagsOf[MsgPizza], hearts |-> 0,
       likes |-> << >>, user |-> "u1", createdAt |-> 1 ],
     [ id |-> 2, message |-> trim(MsgHello), tags |-> TagsOf[MsgHello], hearts |-> 0,
       likes |-> << >>, user |-> NoUser, createdAt |-> 2 ] >>
FrameIds == { FrameThoughts[k].id : k \in DOMAIN FrameThoughts }
FrameCredentials == { [kind |-> "none"], [kind |-> "valid", userId |-> "u1"] }
FrameBodies ==
  [ message : { MsgPizza, MsgHello }, tags : TagInputs, preserveTags : BOOLEAN ]

InitFrame ==
  /\ ctext = << >>
  /\ ctags = << >>
  /\ cpc = "idle"
  /\ thoughts = FrameThoughts
  /\ nextId = Len(FrameThoughts) + 1
  /\ last = NoRequest
  /\ messages = << >>
  /\ view = NoView
  /\ nodeEnv = "production"
  /\ pending = NoPending
  /\ file = << >>

FrameUpdate ==
  \E cred \in FrameCredentials, id \in FrameIds, body \in FrameBodies :
     /\ UpdateThought(cred, id, body.message, body.tags, body.preserveTags)
     /\ UNCHANGED << cvars, fvars, nodeEnv, pending >>

FrameLike ==
  \E cred \in FrameCredentials, id \in FrameIds :
     LikeThought(cred, id) /\ UNCHANGED << cvars, fvars, nodeEnv, pending >>

NextFrame == FrameUpdate \/ FrameLike

SpecFrame == InitFrame /\ [][NextFrame]_vars

\* likeThought as two steps, so that requests interleave at its awaits: the
\* read (await Thought.findById) and the save (await thought.save()).
LikeCredentials == { [kind |-> "none"], [kind |-> "valid", userId |-> "u1"] }

\* The part of likeThought up to the first await: the document is read.
LikeRead(r, cred, id) ==
  LET thought == findById(id)
  IN  /\ pending[r] = Idle
      /\ IF thought = NoThought
           THEN /\ Fail("like", "/thoughts/:id/like", id, Caller(cred), NotFoundError)
                /\ UNCHANGED pending
           ELSE /\ Len(thought.likes) < MaxHearts
                /\ thought.hearts < MaxHearts
                /\ pending' = [ pending EXCEPT
                                  ![r] = [ pc |-> "read", cred |-> cred, id |-> id,
                                           thought |-> thought, stale |-> FALSE ] ]
                /\ UNCHANGED << thoughts, nextId, last >>

\* thought.save() of a document read earlier. Mongoose sends the changes made
\* to the document in memory: push becomes $push on the stored array, an
\* assigned array becomes $set guarded by the version read (a VersionError
\* when another array write was saved in between), a changed number $set.
SaveOutcome(stored, read, local, stale) ==
  LET pushed == Len(local.likes) > Len(read.likes)
      assigned == Len(local.likes) < Len(read.likes)
      hearts == IF local.hearts # read.hearts THEN local.hearts ELSE stored.hearts
  IN  IF assigned /\ stale
        THEN [ err |-> OtherError("VersionError"), doc |-> stored, wroteLikes |-> FALSE ]
      ELSE IF assigned
        THEN [ err |-> NoError, wroteLikes |-> TRUE,
               doc |-> [ stored EXCEPT !.likes = local.likes, !.hearts = hearts ] ]
      ELSE IF pushed
        THEN [ err |-> NoError, wroteLikes |-> TRUE,
               doc |-> [ stored EXCEPT
                           !.likes = Append(stored.likes, local.likes[Len(local.likes)]),
                           !.hearts = hearts ] ]
      ELSE [ err |-> NoError, wroteLikes |-> FALSE,
             doc |-> [ stored EXCEPT !.hearts = hearts ] ]

\* The rest of likeThought: the toggle or increment on the document that was
\* read, the save and the response.
LikeSave(r) ==
  /\ pending[r] # Idle
  /\ LET p == pending[r]
         req == optionalAuth(p.cred)
         userId == IF req.isAuthenticated THEN Field(req.user, "id") ELSE Undefined
         local == IF userId # Undefined THEN ToggleLike(p.thought, userId)
                  ELSE AnonymousLike(p.thought)
         out == SaveOutcome(findById(p.id), p.thought, local, p.stale)
         route == "/thoughts/:id/like"
     IN  /\ IF out.err # NoError
              THEN Fail("like", route, p.id, Caller(p.cred), out.err)
              ELSE /\ thoughts' = Replace(p.id, out.doc)
                   /\ UNCHANGED nextId
                   /\ Respond("like", route, p.id, Caller(p.cred), 200)
         /\ pending' = [ q \in Requests |->
                           IF q = r THEN Idle
                           ELSE IF pending[q] # Idle /\ pending[q].id = p.id /\ out.wroteLikes
                             THEN [ pending[q] EXCEPT !.stale = TRUE ]
                           ELSE pending[q] ]

\* A collection with one anonymous thought, created through POST /thoughts.
InitLikes ==
  /\ ctext = << >>
  /\ ctags = << >>
  /\ cpc = "idle"
  /\ thoughts = << [ id |-> 1, message |-> MsgPizza, tags |-> TagsOf[MsgPizza],
                     hearts |-> 0, likes |-> << >>, user |-> NoUser, createdAt |-> 1 ] >>
  /\ nextId = 2
  /\ last = NoRequest
  /\ messages = << >>
  /\ view = NoView
  /\ nodeEnv = "production"
  /\ pending = NoPending
  /\ file = << >>

BeginLike ==
  \E r \in Requests, cred \in LikeCredentials, id \in Ids :
     LikeRead(r, cred, id) /\ UNCHANGED << cvars, fvars, nodeEnv >>

EndLike == \E r \in Requests : LikeSave(r) /\ UNCHANGED << cvars, fvars, nodeEnv >>

NextLikes == BeginLike \/ EndLike

SpecLikes == InitLikes /\ [][NextLikes]_vars

InitClassify ==
  /\ ctext \in Texts
  /\ ctags = << >>
  /\ cpc = "input"
  /\ thoughts = << >>
  /\ nextId = 1
  /\ last = NoRequest
  /\ messages = << >>
  /\ view = NoView
  /\ nodeEnv = "development"
  /\ pending = NoPending
  /\ file = << >>

\* One call of identifyTags on the JavaScript string of the text.
Classify ==
  /\ cpc = "input"
  /\ ctags' = identifyTags(ToUtf16(ctext))
  /\ cpc' = "done"
  /\ UNCHANGED << ctext, svars, fvars, nodeEnv >>

NextClassify == Classify

SpecClassify == InitClassify /\ [][NextClassify]_vars

\* ---------------------------------------------------------------------
\* File-backed store: ThoughtsModel over this.messages
\* ---------------------------------------------------------------------
MaxStore == 3       \* number of records in the data file when it is loaded

\* The labels as JavaScript strings (UTF-16 code units).
LabelUnits ==
  [
    food |-> << 102, 111, 111, 100 >>,
    programming |-> << 112, 114, 111, 103, 114, 97, 109, 109, 105, 110, 103 >>,
    work |-> << 119, 111, 114, 107 >>,
    home |-> << 104, 111, 109, 101 >>,
    health |-> << 104, 101, 97, 108, 116, 104 >>,
    weather |-> << 119, 101, 97, 116, 104, 101, 114 >>,
    emotions |-> << 101, 109, 111, 116, 105, 111, 110, 115 >>,
    travel |-> << 116, 114, 97, 118, 101, 108 >>,
    entertainment |-> << 101, 110, 116, 101, 114, 116, 97, 105, 110, 109, 101, 110, 116 >>,
    learning |-> << 108, 101, 97, 114, 110, 105, 110, 103 >>,
    general |-> << 103, 101, 110, 101, 114, 97, 108 >>,
    Food |-> << 70, 111, 111, 100 >>
  ]

\* The records of the data file that loadData keeps: objects with _id,
\* message and a numeric hearts. tags may be missing (hasTags = FALSE).
StoredHello == <<104,101,108,108,111>>   \* "hello"
StoredCat == <<99,97,116>>               \* "cat"
StoreRecords ==
  { [ message |-> MsgPizza,    hasTags |-> FALSE, tags |-> << >>,               hearts |-> 0 ],
    [ message |-> MsgPizza,    hasTags |-> TRUE,  tags |-> << "food" >>,         hearts |-> 1 ],
    [ message |-> StoredCat,   hasTags |-> TRUE,  tags |-> << "home", "food" >>, hearts |-> 1 ],
    [ message |-> StoredHello, hasTags |-> TRUE,  tags |-> << >>,               hearts |-> 0 ],
    [ message |-> StoredHello, hasTags |-> TRUE,  tags |-> << "general" >>,      hearts |-> 3 ] }

\* A loaded file: up to MaxStore records, the _id of a record being its
\* position in the file.
WithId(r, id) ==
  [ _id |-> id, message |-> r.message, hasTags |-> r.hasTags, tags |-> r.tags,
    hearts |-> r.hearts ]
StoreContents ==
  UNION { { [ i \in 1..n |-> WithId(f[i], i) ] : f \in [ 1..n -> StoreRecords ] } :
            n \in 0..MaxStore }

\* An entry of the data file that loadData drops: its message is empty.
InvalidRecord ==
  [ message |-> EmptyString, hasTags |-> FALSE, tags |-> << >>, hearts |-> 0 ]

\* A data file: up to MaxStore entries, valid records or not.
FileContents ==
  UNION { { [ i \in 1..n |-> WithId(f[i], i) ] :
              f \in [ 1..n -> StoreRecords \cup { InvalidRecord } ] } :
            n \in 0..MaxStore }

\* The filter of loadData: an object with _id, a message that is not empty
\* and a numeric hearts (the first and the last hold for every entry here).
IsValidEntry(message) == message.message # EmptyString

\* ThoughtsModel.loadData: the entries of the file that pass the filter.
loadData(f) == SelectSeq(f, IsValidEntry)

\* identifyTags on the messages of the stored records.
StoreTagsOf ==
  [ m \in { r.message : r \in StoreRecords } |-> identifyTags(m) ]

\* Math.ceil(a / b) for integers a and b # 0.
MathCeilDiv(a, b) == IF b > 0 THEN -((-a) \div b) ELSE -(a \div (-b))

\* A slice that takes the element at end as well.
slice_InclusiveEnd(s, start, end) ==
  SubSeq(s, start + 1, IF end + 1 < Len(s) THEN end + 1 ELSE Len(s))

\* Array.prototype.slice(start, end) for 0 <= start <= end.
slice(s, start, end) ==
  SubSeq(s, start + 1, IF end < Len(s) THEN end ELSE Len(s))

\* A page count that rounds down.
totalPages_Floor(msgs, limit) == Len(msgs) \div limit

\* totalPages of getPaginatedThoughts: Math.ceil(this.messages.length / limit).
totalPages(msgs, limit) == MathCeilDiv(Len(msgs), limit)

\* ThoughtsModel.getPaginatedThoughts(page, limit); next and previous are
\* present (one element) or absent (empty).
getPaginatedThoughts(msgs, page, limit) ==
  LET startIndex == (page - 1) * limit
      endIndex == startIndex + limit
  IN  [ thoughts |-> slice(msgs, startIndex, endIndex),
        totalCount |-> Len(msgs),
        currentPage |-> page,
        totalPages |-> totalPages(msgs, limit),
        next |-> IF endIndex < Len(msgs)
                   THEN << [ page |-> page + 1, limit |-> limit ] >> ELSE << >>,
        previous |-> IF startIndex > 0
                       THEN << [ page |-> page - 1, limit |-> limit ] >> ELSE << >> ]

\* Pages and limits of a call: 1 .. one more than the size of the file.
PageInputs == 1..(MaxStore + 1)
LimitInputs == 1..(MaxStore + 1)

Paginate ==
  \E page \in PageInputs, limit \in LimitInputs :
     /\ view' = [ op |-> "paginate", page |-> page, limit |-> limit,
                  result |-> getPaginatedThoughts(messages, page, limit) ]
     /\ UNCHANGED << cvars, svars, messages, file, nodeEnv >>

\* A comparator that also puts a record before those with equal hearts.
comesBefore_TiesToo(a, b) == b.hearts - a.hearts <= 0

\* The comparator (a, b) => b.hearts - a.hearts: a sorts before b when the
\* result is negative.
comesBefore(a, b) == b.hearts - a.hearts < 0

\* Array.prototype.sort is stable: a record is placed before the first record
\* it sorts before, and after all others.
RECURSIVE SortByHearts(_)
SortByHearts(s) ==
  IF s = << >> THEN << >>
  ELSE LET r == SortByHearts(SubSeq(s, 1, Len(s) - 1))
           x == s[Len(s)]
           later == { i \in 1..Len(r) : comesBefore(x, r[i]) }
           at == IF later = {} THEN Len(r) + 1
                 ELSE CHOOSE i \in later : \A j \in later : i <= j
       IN  SubSeq(r, 1, at - 1) \o << x >> \o SubSeq(r, at, Len(r))

\* ThoughtsModel.getTrendingThoughts
getTrendingThoughts(msgs) == SortByHearts(msgs)

Trending ==
  /\ view' = [ op |-> "trending", result |-> getTrendingThoughts(messages) ]
  /\ UNCHANGED << cvars, svars, messages, file, nodeEnv >>

\* The tag of a call, as a string: "food", "FOOD", "Food", "home", "hOME",
\* "travel" (a label no stored record carries).
TagParams ==
  { <<102,111,111,100>>, <<70,79,79,68>>, <<70,111,111,100>>,
    <<104,111,109,101>>, <<104,79,77,69>>, <<116,114,97,118,101,108>> }

\* A lookup that compares the tag as given.
normalizeTag_AsGiven(tag) == tag

\* tag.toLowerCase()
normalizeTag(tag) == toLowerCase(tag)

\* message.tags && message.tags.includes(tag.toLowerCase())
hasTag(message, tag) ==
  /\ message.hasTags
  /\ \E i \in 1..Len(message.tags) : LabelUnits[message.tags[i]] = normalizeTag(tag)

\* ThoughtsModel.getThoughtsByTag(tag)
getThoughtsByTag(msgs, tag) ==
  LET Tagged(message) == hasTag(message, tag) IN SelectSeq(msgs, Tagged)

ByTag ==
  \E tag \in TagParams :
     /\ view' = [ op |-> "byTag", tag |-> tag, result |-> getThoughtsByTag(messages, tag) ]
     /\ UNCHANGED << cvars, svars, messages, file, nodeEnv >>

\* Comparison of two strings by their UTF-16 code units, as the default
\* comparator of Array.prototype.sort does.
StringLess(a, b) ==
  \E i \in 1..(Len(b)) :
     /\ \A k \in 1..(i - 1) : k <= Len(a) /\ a[k] = b[k]
     /\ (i > Len(a) \/ (i - 1 < Len(a) /\ a[i] < b[i]))

\* A sort that leaves the labels as they come.
SortLabels_InsertionOrder(s) == s

\* [...].sort() on labels: ascending by StringLess, stable.
RECURSIVE SortLabels(_)
SortLabels(s) ==
  IF s = << >> THEN << >>
  ELSE LET r == SortLabels(SubSeq(s, 1, Len(s) - 1))
           x == s[Len(s)]
           later == { i \in 1..Len(r) : StringLess(LabelUnits[x], LabelUnits[r[i]]) }
           at == IF later = {} THEN Len(r) + 1
                 ELSE CHOOSE i \in later : \A j \in later : i <= j
       IN  SubSeq(r, 1, at - 1) \o << x >> \o SubSeq(r, at, Len(r))

\* this.messages.flatMap((message) => message.tags || [])
RECURSIVE flatMapTags(_)
flatMapTags(msgs) ==
  IF msgs = << >> THEN << >>
  ELSE (IF Head(msgs).hasTags THEN Head(msgs).tags ELSE << >>) \o flatMapTags(Tail(msgs))

\* ThoughtsModel.getAllTags
getAllTags(msgs) == SortLabels(UniqueSeq(flatMapTags(msgs)))

AllTags ==
  /\ view' = [ op |-> "allTags", result |-> getAllTags(messages) ]
  /\ UNCHANGED << cvars, svars, messages, file, nodeEnv >>

\* if (!message.tags): true for a missing tags field, false for every array,
\* the empty one included.
needsTags(message) == ~message.hasTags

\* ThoughtsModel.updateExistingThoughtsWithTags: the records after the run
\* and the number of records it tagged.
updateExistingThoughtsWithTags(msgs) ==
  [ messages |-> [ k \in 1..Len(msgs) |->
                     IF needsTags(msgs[k])
                       THEN [ msgs[k] EXCEPT !.hasTags = TRUE,
                                             !.tags = StoreTagsOf[msgs[k].message] ]
                       ELSE msgs[k] ],
    updatedCount |-> Cardinality({ k \in 1..Len(msgs) : needsTags(msgs[k]) }) ]

Backfill ==
  LET run == updateExistingThoughtsWithTags(messages)
  IN  /\ messages' = run.messages
      /\ view' = [ op |-> "backfill", result |-> run.updatedCount ]
      /\ file' = IF run.updatedCount > 0 THEN run.messages ELSE file
      /\ UNCHANGED << cvars, svars, nodeEnv >>

\* GET /thoughts: query parameters page and limit, absent or the decimal
\* text of an integer.
DefaultPage == 1
DefaultLimit == 10
PageParams ==
  { [ given |-> FALSE, value |-> 0 ] }
    \cup { [ given |-> TRUE, value |-> v ] : v \in { -1, 0, 1, 2 } }
LimitParams ==
  { [ given |-> FALSE, value |-> 0 ] }
    \cup { [ given |-> TRUE, value |-> v ] : v \in { -1, 0, 1, 100, 101 } }

\* parseInt(param, 10) || default: NaN (absent) and 0 are falsy.
ParseOr(param, default) ==
  IF ~param.given \/ param.value = 0 THEN default ELSE param.value

RECURSIVE Reverse(_)
Reverse(s) == IF s = << >> THEN << >> ELSE Append(Reverse(Tail(s)), Head(s))

\* thoughtsService.getPaginatedThoughts(page, limit) on the Thought
\* collection: newest first, skip, limit. MongoDB rejects a negative skip and
\* reads a negative limit as its absolute value.
serviceGetPaginatedThoughts(coll, page, limit) ==
  LET skip == (page - 1) * limit
      count == IF limit < 0 THEN -limit ELSE limit
  IN  IF skip < 0
        THEN [ err |-> OtherError("MongoServerError"), thoughts |-> << >>, totalPages |-> 0 ]
        ELSE [ err |-> NoError,
               thoughts |-> slice(Reverse(coll), IF skip < Len(coll) THEN skip ELSE Len(coll),
                                  skip + count),
               totalPages |-> MathCeilDiv(Len(coll), limit) ]

\* Controller getAllThoughts: the request, whether the collection was
\* queried, the status and the page returned.
getAllThoughts(pageParam, limitParam) ==
  LET page == ParseOr(pageParam, DefaultPage)
      limit == ParseOr(limitParam, DefaultLimit)
      out == serviceGetPaginatedThoughts(thoughts, page, limit)
  IN  [ op |-> "list", page |-> pageParam, limit |-> limitParam,
        queried |-> TRUE,
        status |-> IF out.err = NoError THEN 200 ELSE ErrorStatus(out.err),
        result |-> [ thoughts |-> out.thoughts,
                     pagination |-> [ current |-> page, pages |-> out.totalPages ] ] ]

ListThoughts ==
  \E pageParam \in PageParams, limitParam \in LimitParams :
     /\ view' = getAllThoughts(pageParam, limitParam)
     /\ UNCHANGED << cvars, svars, messages, file, nodeEnv >>

InitStore ==
  /\ ctext = << >>
  /\ ctags = << >>
  /\ cpc = "idle"
  /\ thoughts = << >>
  /\ nextId = 1
  /\ last = NoRequest
  /\ file \in FileContents
  /\ messages = loadData(file)
  /\ view = NoView
  /\ nodeEnv = "development"
  /\ pending = NoPending

NextStore == Paginate \/ ListThoughts \/ Trending \/ ByTag \/ AllTags \/ Backfill

SpecStore == InitStore /\ [][NextStore]_vars

\* The request handlers together with the read views of the service, which
\* delegate to thoughtsModel = new ThoughtsModel(useDatabase): the file-backed
\* store loaded at start (USE_DATABASE unset). The ids of its records are no
\* ObjectIds of the Thought collection.
ViewsFiles ==
  { << >> } \cup { << WithId(r, MaxThoughts + 1) >> : r \in StoreRecords }
ViewsCredentials == { [kind |-> "none"], [kind |-> "valid", userId |-> "u1"] }

InitViews ==
  /\ ctext = << >>
  /\ ctags = << >>
  /\ cpc = "idle"
  /\ thoughts = << >>
  /\ nextId = 1
  /\ last = NoRequest
  /\ file \in ViewsFiles
  /\ messages = loadData(file)
  /\ view = NoView
  /\ nodeEnv = "production"
  /\ pending = NoPending

\* A write request: the view computed before it is no longer current.
ViewsCreate ==
  \E route \in { "/thoughts", "/users/thoughts" }, cred \in ViewsCredentials,
     message \in { MsgPizza, MsgHello } :
       /\ CreateThought(route, cred, message)
       /\ view' = NoView
       /\ UNCHANGED << cvars, messages, file, nodeEnv, pending >>

ViewsLike ==
  \E cred \in ViewsCredentials, id \in Ids :
     /\ LikeThought(cred, id)
     /\ view' = NoView
     /\ UNCHANGED << cvars, messages, file, nodeEnv, pending >>

ViewsDelete ==
  \E cred \in ViewsCredentials, id \in Ids :
     /\ DeleteThought("/thoughts/:id", cred, id)
     /\ view' = NoView
     /\ UNCHANGED << cvars, messages, file, nodeEnv, pending >>

NextViews == ViewsCreate \/ ViewsLike \/ ViewsDelete \/ Trending \/ ByTag \/ AllTags

SpecViews == InitViews /\ [][NextViews]_vars

\* Date.now() + random suffix: an _id no entry of the store or file has.
RECURSIVE MaxId(_)
MaxId(s) ==
  IF s = << >> THEN 0
  ELSE LET m == MaxId(Tail(s)) IN IF Head(s)._id > m THEN Head(s)._id ELSE m
NewId == (IF MaxId(file) > MaxId(messages) THEN MaxId(file) ELSE MaxId(messages)) + 1

\* [...new Set([...autoTags, ...manualTags])]
CombineTags(autoTags, manualTags) == UniqueSeq(autoTags \o manualTags)

\* The manual tags a caller of addThought passes.
ManualTagInputs == { << >>, << "Food" >>, << "food" >> }

\* ThoughtsStore.addThought(messageText, manualTags): the new record.
addThought(messageText, manualTags) ==
  [ _id |-> NewId, message |-> trim(messageText), hasTags |-> TRUE,
    tags |-> CombineTags(TagsOf[messageText], manualTags), hearts |-> 0 ]

\* ThoughtsModel.createThought(message): the new record.
createThought(message) ==
  [ _id |-> NewId, message |-> trim(message), hasTags |-> TRUE,
    tags |-> TagsOf[message], hearts |-> 0 ]

\* saveData after a change of this.messages: the file holds this.messages.
\* The store holds at most MaxStore + 1 records and ids in this model.
StoreAdd ==
  \E messageText \in { MsgHello }, manualTags \in ManualTagInputs :
     /\ NewId <= MaxStore + 1
     /\ Len(messages) <= MaxStore
     /\ messages' = Append(messages, addThought(messageText, manualTags))
     /\ file' = messages'
     /\ view' = [ op |-> "add", id |-> NewId, manualTags |-> manualTags ]
     /\ UNCHANGED << cvars, svars, nodeEnv >>

StoreCreate ==
  \E message \in { MsgHello } :
     /\ NewId <= MaxStore + 1
     /\ Len(messages) <= MaxStore
     /\ messages' = Append(messages, createThought(message))
     /\ file' = messages'
     /\ view' = [ op |-> "create", id |-> NewId ]
     /\ UNCHANGED << cvars, svars, nodeEnv >>

\* The ids a caller passes to likeThought and deleteThought.
StoreIds == 1..(MaxStore + 1)

\* ThoughtsModel.likeThought(id): hearts++ and saveData, or null.
StoreLike ==
  \E id \in StoreIds :
     LET found == \E k \in 1..Len(messages) : messages[k]._id = id
     IN  /\ \A k \in 1..Len(messages) : messages[k]._id = id => messages[k].hearts < MaxHearts
         /\ messages' = [ k \in 1..Len(messages) |->
                            IF messages[k]._id = id
                              THEN [ messages[k] EXCEPT !.hearts = @ + 1 ]
                              ELSE messages[k] ]
         /\ file' = IF found THEN messages' ELSE file
         /\ view' = [ op |-> "like", id |-> id, found |-> found ]
         /\ UNCHANGED << cvars, svars, nodeEnv >>

\* ThoughtsModel.deleteThought(id): splice and saveData, or null.
StoreDelete ==
  \E id \in StoreIds :
     LET found == \E k \in 1..Len(messages) : messages[k]._id = id
         Others(message) == message._id # id
     IN  /\ messages' = SelectSeq(messages, Others)
         /\ file' = IF found THEN messages' ELSE file
         /\ view' = [ op |-> "delete", id |-> id, found |-> found ]
         /\ UNCHANGED << cvars, svars, nodeEnv >>

NextFile == StoreAdd \/ StoreCreate \/ StoreLike \/ StoreDelete \/ Backfill

SpecFile == InitStore /\ [][NextFile]_vars

\* ---------------------------------------------------------------------
\* Properties of the request handlers (checked under Spec)
\* ---------------------------------------------------------------------
Succeeded(r) == r.status \in 200..299
InLikes(u, t) == \E i \in 1..Len(t.likes) : t.likes[i] = u

\* C1: an update whose message passes validation fails with the
\* authorization error and changes nothing whenever the thought's owner is
\* not the requesting user, and also whenever the thought has no owner.
C1_UpdateOnlyByOwner ==
  [][ ( /\ last'.op = "update"
        /\ last'.user \in Users
        /\ last'.status # ValidationStatus
        /\ findById(last'.id) # NoThought
        /\ findById(last'.id).user # last'.user )
      => ( last'.status = AuthorizationStatus /\ thoughts' = thoughts ) ]_vars

\* C2: a thought leaves the collection only through a successful delete of
\* that thought requested by its owner; a delete of a thought that has no
\* owner or another owner fails and leaves the collection as it was.
C2_DeleteOnlyByOwner ==
  [][ \A id \in Ids :
        LET t == findById(id)
        IN  t # NoThought =>
              /\ Lookup(thoughts', id) = NoThought
                   => /\ last'.op = "delete" /\ last'.id = id
                      /\ Succeeded(last')
                      /\ t.user # NoUser
                      /\ last'.user = t.user
              /\ ( /\ last'.op = "delete" /\ last'.id = id
                   /\ (t.user = NoUser \/ last'.user # t.user) )
                   => ( ~Succeeded(last') /\ thoughts' = thoughts ) ]_vars

\* An owner has deleted their thought.
C2_Witness ==
  /\ last.op = "delete"
  /\ last.status = 200
  /\ last.user \in Users
  /\ findById(last.id) = NoThought

\* C3: the stored message of every thought has a length within 5..140.
C3_MessageLengthWithinBounds ==
  \A i \in 1..Len(thoughts) :
     /\ Len(thoughts[i].message) >= MinLength
     /\ Len(thoughts[i].message) <= MaxLength

\* C4: the tags of every stored thought are non-empty.
C4_TagsNeverEmpty ==
  \A i \in 1..Len(thoughts) : Len(thoughts[i].tags) >= 1

\* C5: an authenticated like toggles the user's membership in likes and
\* leaves hearts equal to the number of likes; when the same user likes the
\* same thought twice in a row the first call adds and the second removes
\* the user, and a thought that had no likes goes 0 -> 1 -> 0 hearts.
C5_LikeTogglesPerUser ==
  [][ ( /\ last'.op = "like" /\ last'.user \in Users /\ Succeeded(last') )
      => LET u == last'.user
             before == findById(last'.id)
             after == Lookup(thoughts', last'.id)
             repeated == last = last'
         IN  /\ after.hearts = Len(after.likes)
             /\ InLikes(u, after) <=> ~InLikes(u, before)
             /\ (before.likes = << >> /\ before.hearts = 0) => after.hearts = 1
             /\ (repeated /\ before.likes = << u >>)
                   => (before.hearts = 1 /\ after.hearts = 0 /\ after.likes = << >>)
    ]_vars

\* A user's like has just removed that user again: the thought is back to no
\* likes and no hearts.
C5_Witness ==
  /\ last.op = "like"
  /\ last.user \in Users
  /\ last.status = 200
  /\ findById(last.id) # NoThought
  /\ findById(last.id).likes = << >>
  /\ findById(last.id).hearts = 0

\* C6: a like by an unauthenticated caller on an existing thought increases
\* hearts by exactly one and leaves likes unchanged.
C6_AnonymousLikeAddsOne ==
  [][ ( /\ last'.op = "like" /\ last'.user = NoUser /\ Succeeded(last') )
      => LET before == findById(last'.id)
             after == Lookup(thoughts', last'.id)
         IN  /\ before # NoThought
             /\ after.hearts = before.hearts + 1
             /\ after.likes = before.likes
    ]_vars

\* Two anonymous likes have raised hearts to 2 with nobody in likes.
C6_Witness ==
  /\ last.op = "like"
  /\ last.user = NoUser
  /\ last.status = 200
  /\ findById(last.id) # NoThought
  /\ findById(last.id).hearts = 2
  /\ findById(last.id).likes = << >>

\* C12: a create that passes the authentication middleware answers with the
\* validation error (400) and stores nothing when the trimmed message is
\* shorter than 5 or longer than 140 characters or is missing; otherwise it
\* answers 201 and appends one record with the trimmed message, hearts = 0,
\* tags = identifyTags(message), a fresh id and createdAt.
C12_CreateValidation ==
  [][ \A route \in { "/thoughts", "/users/thoughts" }, cred \in Credentials,
         message \in MessageInputs \cup { EmptyString } :
        ( /\ CreateThought(route, cred, message)
          /\ (route = "/thoughts" \/ cred.kind = "valid") )
        => IF Len(trim(message)) < MinLength \/ Len(trim(message)) > MaxLength
             THEN last'.status = ValidationStatus /\ thoughts' = thoughts
             ELSE /\ last'.status = 201
                  /\ Len(thoughts') = Len(thoughts) + 1
                  /\ SubSeq(thoughts', 1, Len(thoughts)) = thoughts
                  /\ LET new == thoughts'[Len(thoughts')]
                     IN  /\ new.message = trim(message)
                         /\ new.hearts = 0
                         /\ new.tags = identifyTags(message)
                         /\ \A i \in 1..Len(thoughts) :
                               /\ thoughts[i].id # new.id
                               /\ thoughts[i].createdAt # new.createdAt
    ]_vars

\* C13: a successful update stores the new message and sets tags: the
\* thought's existing tags when the preserve flag is set; otherwise
\* identifyTags(newMessage) when the body carries no tags; otherwise the
\* tags of the body.
C13_UpdateTags ==
  [][ \A cred \in Credentials, id \in Ids, message \in MessageInputs,
         tags \in TagInputs, preserveTags \in BOOLEAN :
        ( /\ UpdateThought(cred, id, message, tags, preserveTags)
          /\ last'.status = 200 )
        => LET before == findById(id)
               after == Lookup(thoughts', id)
           IN  /\ after.message = trim(message)
               /\ after.tags = IF preserveTags THEN before.tags
                                ELSE IF ~tags.given THEN identifyTags(message)
                                ELSE tags.value
    ]_vars

\* C14: a like, an update (by an authenticated caller, with a message that
\* passes validation) and a delete (by an authenticated caller) of an id that
\* is not in the collection fail with the not-found error (404) and leave the
\* collection unchanged.
C14_MissingIdIsNotFound ==
  [][ ( /\ last'.op \in { "like", "update", "delete" }
        /\ findById(last'.id) = NoThought
        /\ last'.op = "update" => (last'.user \in Users /\ last'.status # ValidationStatus)
        /\ last'.op = "delete" => (last'.user \in Users /\ last'.route = "/thoughts/:id") )
      => ( last'.status = NotFoundStatus /\ thoughts' = thoughts ) ]_vars

\* ---------------------------------------------------------------------
\* Properties of the classifier (checked under SpecClassify)
\* ---------------------------------------------------------------------
\* The matching rules as the specification words them, written without the
\* operators of the model of identifyTags.
Lowered(cps) ==
  [ i \in 1..Len(cps) |-> IF cps[i] \in 65..90 THEN cps[i] + 32 ELSE cps[i] ]

OccursIn(word, cps) ==
  \E start \in 1..(Len(cps) - Len(word) + 1) :
     \A k \in 1..Len(word) : cps[start + k - 1] = word[k]

\* The category's keyword table matches: the lower-cased text contains a
\* keyword, the keyword + "s" or the keyword + "ing" as a plain substring.
KeywordMatches(c, cps) ==
  \E j \in 1..Len(tagKeywords[c]) :
     \E suffix \in { << >>, << 115 >>, << 105, 110, 103 >> } :
        OccursIn(tagKeywords[c][j] \o suffix, Lowered(cps))

\* The category's emoji table matches: the text contains one of its code points.
EmojiMatches(c, cps) ==
  /\ c \in SeqToSet(EmojiCategories)
  /\ \E i \in 1..Len(cps) : cps[i] \in SeqToSet(emojiCodePoints[c])

CategoryMatches(c, cps) == KeywordMatches(c, cps) \/ EmojiMatches(c, cps)

Labels == SeqToSet(ctags)
NoDuplicates(s) == \A i, j \in 1..Len(s) : i # j => s[i] # s[j]
IsAscii(cps) == \A i \in 1..Len(cps) : cps[i] < 128

\* C7: for every input string, including the empty one, identifyTags returns
\* a non-empty duplicate-free list; when no keyword and no emoji category
\* matches the result is exactly <<"general">>, and "general" never appears
\* together with another label.
C7_NonEmptyGeneralFallback ==
  cpc = "done" =>
    /\ Len(ctags) >= 1
    /\ NoDuplicates(ctags)
    /\ ("general" \in Labels => ctags = << "general" >>)
    /\ ((\A c \in SeqToSet(Categories) : ~CategoryMatches(c, ctext))
          => ctags = << "general" >>)

\* The forms of a keyword a reader of the documentation expects to be
\* recognised: plural, and the -ing form that drops a final "e".
Coding == <<99,111,100,105,110,103>>

\* C8: a text containing "coding" is tagged programming, and
\* "I love pizza and coding" is tagged both food and programming.
C8_CodingIsProgramming ==
  cpc = "done" =>
    /\ (OccursIn(Coding, Lowered(ctext)) => "programming" \in Labels)
    /\ (ctext = PizzaAndCoding => { "food", "programming" } \subseteq Labels)

\* C9: a category with an emoji table is in the result if and only if one of
\* its keywords matches or the text contains a code point of its own table.
C9_EmojiOwnTableOnly ==
  cpc = "done" =>
    \A c \in SeqToSet(EmojiCategories) :
       (c \in Labels) <=> CategoryMatches(c, ctext)

\* C10: a category is matched by keywords exactly when the lower-cased text
\* contains a keyword, keyword + "s" or keyword + "ing" as a plain substring:
\* such a category is always in the result, a category without an emoji table
\* is in the result only then, and so is every category on a text without
\* emoji.
C10_KeywordSubstringMatch ==
  cpc = "done" =>
    \A c \in SeqToSet(Categories) :
       /\ KeywordMatches(c, ctext) => c \in Labels
       /\ (c \notin SeqToSet(EmojiCategories) \/ IsAscii(ctext))
            => (c \in Labels => KeywordMatches(c, ctext))

\* "catastrophe" has been classified and is tagged home through "cat".
Catastrophe == <<99,97,116,97,115,116,114,111,112,104,101>>
C10_Witness ==
  /\ cpc = "done"
  /\ ctext = Catastrophe
  /\ "home" \in Labels

\* The upper-cased text: a-z map to A-Z.
Uppered(cps) ==
  [ i \in 1..Len(cps) |-> IF cps[i] \in 97..122 THEN cps[i] - 32 ELSE cps[i] ]

\* C11: identifyTags is case-insensitive: a text, its upper-cased form and
\* its lower-cased form get the same set of labels (stated for every text of
\* the alphabet: letters, and the spaces and emoji case mapping leaves alone).
C11_CaseInsensitive ==
  cpc = "done" =>
    /\ SeqToSet(identifyTags(ToUtf16(Uppered(ctext)))) = Labels
    /\ SeqToSet(identifyTags(ToUtf16(Lowered(ctext)))) = Labels

\* "PIZZA" has been classified and is tagged food, as "pizza" is.
Pizza == <<112,105,122,122,97>>
C11_Witness ==
  /\ cpc = "done"
  /\ Lowered(ctext) = Pizza
  /\ ctext # Pizza
  /\ "food" \in Labels

\* ---------------------------------------------------------------------
\* Properties of the file-backed store (checked under SpecStore)
\* ---------------------------------------------------------------------
\* ceil(n / d) stated without division: the least k with k * d >= n.
IsCeiling(k, n, d) == k * d >= n /\ (k - 1) * d < n

\* The numbers 1..n as a collection.
Numbered(n) == [ i \in 1..n |-> i ]

C16_ListValidatesPagination ==
  ( /\ view.op = "list"
    /\ \/ (view.page.given /\ view.page.value < 1)
       \/ (view.limit.given /\ view.limit.value \notin 1..100) )
  => ( view.status = ValidationStatus /\ ~view.queried )

\* The position of a record in a collection (records differ in _id).
PositionIn(msgs, r) == CHOOSE k \in 1..Len(msgs) : msgs[k] = r

\* r is msgs in some order.
IsPermutation(r, msgs) ==
  /\ Len(r) = Len(msgs)
  /\ \A k \in 1..Len(msgs) : \E i \in 1..Len(r) : r[i] = msgs[k]

\* r is ordered by hearts descending, equal hearts in the order of msgs.
IsTrendingOrder(r, msgs) ==
  \A i, j \in 1..Len(r) :
     i < j => /\ r[i].hearts >= r[j].hearts
              /\ r[i].hearts = r[j].hearts
                   => PositionIn(msgs, r[i]) < PositionIn(msgs, r[j])

\* Four records with hearts 3, 1, 3, 0.
FourHearts ==
  << [ _id |-> 1, hearts |-> 3 ], [ _id |-> 2, hearts |-> 1 ],
     [ _id |-> 3, hearts |-> 3 ], [ _id |-> 4, hearts |-> 0 ] >>

\* C17: getTrendingThoughts returns a permutation of the whole collection
\* ordered by hearts descending, records with equal hearts keeping their
\* relative order; hearts 3, 1, 3, 0 give the first 3, the second 3, 1, 0.
C17_TrendingStableDescending ==
  /\ view.op = "trending" =>
       /\ IsPermutation(view.result, messages)
       /\ IsTrendingOrder(view.result, messages)
  /\ getTrendingThoughts(FourHearts)
       = << FourHearts[1], FourHearts[3], FourHearts[2], FourHearts[4] >>

\* A file whose later record has more hearts and whose first two records
\* tie: the result starts with the third record and keeps the tie's order.
C17_Witness ==
  /\ view.op = "trending"
  /\ Len(messages) = 3
  /\ messages[1].hearts = messages[2].hearts
  /\ messages[3].hearts > messages[1].hearts
  /\ view.result = << messages[3], messages[1], messages[2] >>

\* The record carries a label whose text is the lower-cased tag.
CarriesTag(r, tag) ==
  /\ r.hasTags
  /\ \E l \in SeqToSet(r.tags) : LabelUnits[l] = Lowered(tag)

\* r lists, in the order of msgs, exactly the records of msgs that satisfy
\* Keep.
IsFilterOf(r, msgs, Keep(_)) ==
  /\ \A i \in 1..Len(r) : r[i] \in SeqToSet(msgs) /\ Keep(r[i])
  /\ \A k \in 1..Len(msgs) : Keep(msgs[k]) => msgs[k] \in SeqToSet(r)
  /\ \A i, j \in 1..Len(r) : i < j => PositionIn(msgs, r[i]) < PositionIn(msgs, r[j])

\* C18: getThoughtsByTag(tag) returns exactly the records whose tags contain
\* the lower-cased tag (records without tags are left out), so every
\* letter-casing of the same tag gives the same result.
C18_ByTagLowerCased ==
  view.op = "byTag" =>
    LET Keep(r) == CarriesTag(r, view.tag)
    IN  /\ IsFilterOf(view.result, messages, Keep)
        /\ \A other \in TagParams :
             Lowered(other) = Lowered(view.tag)
               => getThoughtsByTag(messages, other) = view.result

\* A call with "FOOD" has returned a record tagged food from a file that also
\* holds a record without tags.
C18_Witness ==
  /\ view.op = "byTag"
  /\ view.tag = <<70,79,79,68>>
  /\ view.result # << >>
  /\ "food" \in SeqToSet(view.result[1].tags)
  /\ \E k \in 1..Len(messages) : ~messages[k].hasTags

\* The labels that occur in the tags of some record.
LabelsIn(msgs) ==
  UNION { SeqToSet(msgs[k].tags) : k \in { k \in 1..Len(msgs) : msgs[k].hasTags } }

\* Lexicographic order of two different strings: at the first position where
\* they differ the smaller code unit decides, and a proper prefix comes first.
LexBefore(a, b) ==
  LET common == { n \in 0..Len(a) : n <= Len(b) /\ SubSeq(a, 1, n) = SubSeq(b, 1, n) }
      n == CHOOSE m \in common : \A o \in common : o <= m
  IN  IF n = Len(a) THEN n < Len(b)
      ELSE n < Len(b) /\ a[n + 1] < b[n + 1]

\* C19: getAllTags returns every label that occurs in the tags of at least
\* one record and no other label, each once, in ascending lexicographic order.
C19_AllTagsSortedUnique ==
  view.op = "allTags" =>
    /\ SeqToSet(view.result) = LabelsIn(messages)
    /\ NoDuplicates(view.result)
    /\ \A i, j \in 1..Len(view.result) :
         i < j => LexBefore(LabelUnits[view.result[i]], LabelUnits[view.result[j]])

\* A file whose records carry home before food and general: the result is
\* food, general, home.
C19_Witness ==
  /\ view.op = "allTags"
  /\ flatMapTags(messages) = << "home", "food", "general" >>
  /\ view.result = << "food", "general", "home" >>

\* The record's tags are missing or empty.
MissingOrEmptyTags(r) == ~r.hasTags \/ r.tags = << >>

\* C20: a backfill run updates exactly the records whose tags are missing or
\* empty, setting their tags to identifyTags(message), and returns their
\* number; after a run no record has missing or empty tags, and a run that
\* immediately follows a run returns 0 and changes nothing.
C20_BackfillMissingOrEmpty ==
  [][ view'.op = "backfill" =>
        /\ Len(messages') = Len(messages)
        /\ \A k \in 1..Len(messages) :
             IF MissingOrEmptyTags(messages[k])
               THEN messages'[k] = [ messages[k] EXCEPT
                                       !.hasTags = TRUE,
                                       !.tags = identifyTags(messages[k].message) ]
               ELSE messages'[k] = messages[k]
        /\ view'.result = Cardinality({ k \in 1..Len(messages) : MissingOrEmptyTags(messages[k]) })
        /\ \A k \in 1..Len(messages') : ~MissingOrEmptyTags(messages'[k])
        /\ view.op = "backfill" => (view'.result = 0 /\ messages' = messages)
    ]_vars

\* ---------------------------------------------------------------------
\* Errors, authentication and ownership of the request handlers
\* ---------------------------------------------------------------------

\* C21: a request that failed with an error that is no API error is answered
\* with status 500 and the generic message, and the body does not carry the
\* message of the original error, whatever NODE_ENV is.
C21_UnexpectedErrorHidesMessage ==
  (last.err # NoError /\ ~last.err.api)
    => /\ last.status = UnexpectedStatus
       /\ last.body.message = "An unexpected error occurred"
       /\ ~last.body.showsErrorMessage

\* C22: an update or delete on the protected routes whose Authorization
\* header is absent, is no Bearer header or carries a token that fails
\* verification is answered 401, and the collection is left as it was.
C22_ProtectedRoutesAnswer401 ==
  [][ \A cred \in Credentials, id \in Ids :
        ( /\ cred.kind # "valid"
          /\ \/ \E body \in UpdateBodies(cred) :
                  UpdateThought(cred, id, body.message, body.tags, body.preserveTags)
             \/ DeleteThought("/thoughts/:id", cred, id) )
        => /\ last'.status = AuthenticationStatus
           /\ thoughts' = thoughts
    ]_vars

\* C24: a thought created through POST /thoughts with a valid token is
\* stored with the token's user as its owner, so that the ownership checks
\* of update and delete pass for that user.
C24_CreateStoresOwner ==
  [][ \A cred \in Credentials, message \in MessageInputs :
        ( /\ cred.kind = "valid"
          /\ CreateThought("/thoughts", cred, message)
          /\ last'.status = 201 )
        => LET doc == Lookup(thoughts', last'.id)
           IN  /\ doc.user = cred.userId
               /\ ServiceDeleteOutcome(doc, cred.userId) = NoError
               /\ ServiceUpdateOutcome(doc, MsgPizza, [ given |-> FALSE, value |-> << >> ],
                                       FALSE, cred.userId).err = NoError
    ]_vars

\* C26: a like by an authenticated user who is not in likes never lowers
\* hearts: the hearts of earlier anonymous likes are still counted.
C26_AuthenticatedLikeKeepsHearts ==
  [][ \A cred \in Credentials, id \in Ids :
        ( /\ cred.kind = "valid"
          /\ LikeThought(cred, id)
          /\ last'.status = 200
          /\ ~InLikes(cred.userId, findById(id)) )
        => Lookup(thoughts', id).hearts >= findById(id).hearts
    ]_vars

\* C27: a successful update changes only message and tags of the thought it
\* targets, and a successful like changes only hearts and likes of the
\* thought it targets; every other field and every other thought is as before.
SameExcept(after, before, fields) ==
  /\ DOMAIN after = DOMAIN before
  /\ \A f \in DOMAIN before \ fields : after[f] = before[f]
OnlyTargetChanges(id, fields) ==
  /\ Len(thoughts') = Len(thoughts)
  /\ \A k \in 1..Len(thoughts) :
       IF thoughts[k].id = id
         THEN SameExcept(thoughts'[k], thoughts[k], fields)
         ELSE thoughts'[k] = thoughts[k]
C27_UpdateAndLikeFrame ==
  [][ /\ (last'.op = "update" /\ last'.status = 200)
           => OnlyTargetChanges(last'.id, { "message", "tags" })
      /\ (last'.op = "like" /\ last'.status = 200)
           => OnlyTargetChanges(last'.id, { "hearts", "likes" })
    ]_vars
\* The anonymous thought was liked after the first thought had been updated.
C27_Witness ==
  /\ last.op = "like" /\ last.status = 200 /\ last.id = 2
  /\ Len(thoughts) = 2
  /\ thoughts[2].hearts = 1
  /\ thoughts[1].message = trim(MsgHello)
  /\ thoughts[1].tags = << "travel" >>
  /\ thoughts[1].hearts = 0

\* C25: likes is a set, also when like requests interleave: no user id
\* occurs twice in likes, and hearts is the number of ids in likes whenever
\* the last like of the thought was an authenticated one.
C25_LikesIsASet ==
  \A k \in 1..Len(thoughts) :
    /\ \A i, j \in 1..Len(thoughts[k].likes) :
         thoughts[k].likes[i] = thoughts[k].likes[j] => i = j
    /\ ( /\ last.op = "like" /\ Succeeded(last)
         /\ last.user \in Users /\ last.id = thoughts[k].id )
       => thoughts[k].hearts = Len(thoughts[k].likes)

\* ---------------------------------------------------------------------
\* Pagination, persistence and tag views of the file-backed store
\* ---------------------------------------------------------------------

\* The thoughts of pages 1..n for a limit, one page after the other.
RECURSIVE ConcatPages(_, _, _)
ConcatPages(msgs, limit, n) ==
  IF n = 0 THEN << >>
  ELSE ConcatPages(msgs, limit, n - 1) \o getPaginatedThoughts(msgs, n, limit).thoughts

\* C28: for the limit of a pagination, the pages 1..totalPages partition
\* the collection: one after the other they give the whole collection in its
\* order, every thought is on exactly one page, and every page but the last
\* has exactly limit thoughts.
C28_PagesPartition ==
  view.op = "paginate"
    => LET limit == view.limit
           n == totalPages(messages, limit)
           OnPage(p, m) ==
             LET page == getPaginatedThoughts(messages, p, limit).thoughts
             IN  \E i \in 1..Len(page) : page[i] = m
       IN  /\ ConcatPages(messages, limit, n) = messages
           /\ \A k \in 1..Len(messages) :
                Cardinality({ p \in 1..n : OnPage(p, messages[k]) }) = 1
           /\ \A p \in 1..(n - 1) :
                Len(getPaginatedThoughts(messages, p, limit).thoughts) = limit
\* Three thoughts paginated by two: a full page and a last page of one.
C28_Witness ==
  /\ view.op = "paginate" /\ view.limit = 2 /\ view.page = 2
  /\ Len(messages) = 3
  /\ Len(view.result.thoughts) = 1

\* C29: a save never drops records: every record of the data file that is
\* not the target of a delete is still in the data file after a create, a
\* like or a backfill (and after a delete of another record).
C29_SaveKeepsRecords ==
  [][ \A k \in 1..Len(file) :
        ~(view'.op = "delete" /\ view'.id = file[k]._id)
          => \E j \in 1..Len(file') : file'[j]._id = file[k]._id
    ]_vars

\* C30: allTags and byTag agree: for every label of allTags(), byTag of
\* that label returns at least one thought, and every thought it returns
\* carries the label in its tags.
C30_AllTagsAndByTagAgree ==
  LET labels == getAllTags(messages)
  IN  \A i \in 1..Len(labels) :
        LET found == getThoughtsByTag(messages, LabelUnits[labels[i]])
        IN  /\ Len(found) >= 1
            /\ \A j \in 1..Len(found) :
                 \E t \in 1..Len(found[j].tags) : found[j].tags[t] = labels[i]

\* C23: the read views work on the collection the writes change: a thought
\* that was created and not deleted is in trending() with its current
\* hearts, in byTag(t) for each of its tags t, and its tags are in allTags().
C23_ViewsReadWhatWritesChange ==
  \A k \in 1..Len(thoughts) :
    LET T == thoughts[k]
    IN  /\ view.op = "trending"
             => \E j \in 1..Len(view.result) :
                   /\ view.result[j]._id = T.id
                   /\ view.result[j].hearts = T.hearts
        /\ ( /\ view.op = "byTag"
             /\ \E t \in 1..Len(T.tags) : LabelUnits[T.tags[t]] = normalizeTag(view.tag) )
             => \E j \in 1..Len(view.result) : view.result[j]._id = T.id
        /\ view.op = "allTags"
             => \A t \in 1..Len(T.tags) :
                   \E j \in 1..Len(view.result) : view.result[j] = T.tags[t]

====
